---- MODULE Spec2Model ----
(***************************************************************************)
(* Model of CodeReviewCrew (src/src/crew.py): the constructor (input       *)
(* validation, configuration loading, agent registry, task graph), run()   *)
(* with the external engine as a nondeterministic collaborator, and        *)
(* _save_results.                                                          *)
(*                                                                         *)
(* Text is modelled as a sequence of string tokens; concatenation of       *)
(* Python strings is \o.  A Python dict is a function from its keys.       *)
(***************************************************************************)
EXTENDS Integers, Sequences, FiniteSets, TLC

\* ------------------------------------------------------------------ bounds
\* Largest value of the wall clock (seconds); datetime.now() never moves back.
MaxClock == 2

\* The crew objects that can exist side by side (independent requests).
Crews == {1, 2}

\* ------------------------------------------------------------ Python values
\* None, as a text value.
PyNone == <<"<None>">>

\* The empty dict / an attribute that has not been assigned yet.
EmptyDict == <<>>

\* No exception pending.
NoExc == [kind |-> "none", msg |-> <<>>]

\* Python truthiness of an Optional[str]: None and "" are both falsy.
Truthy(s) == s # PyNone /\ s # <<>>

\* str(n) for an integer.
IntStr(n) == ToString(n)

\* str(v) for a value that is a str or None.
Str(v) == IF v = PyNone THEN <<"None">> ELSE v

\* datetime.strftime(fmt): one token per (format, second).
Strftime(t, fmt) == ToString(<<fmt, t>>)

\* Every token Strftime can produce within the clock bound (and one beyond).
TimestampTokens ==
    { Strftime(t, fmt) : t \in 0..(MaxClock + 1),
                         fmt \in {"%Y-%m-%d %H:%M:%S", "%Y%m%d_%H%M%S"} }

\* ------------------------------------------------------------ path helpers
\* Index of the last "/" token of a path, 0 when there is none.
LastSep(p) ==
    IF \E i \in 1..Len(p) : p[i] = "/"
    THEN CHOOSE i \in 1..Len(p) :
            p[i] = "/" /\ \A j \in (i + 1)..Len(p) : p[j] # "/"
    ELSE 0

\* os.path.basename
Basename(p) == SubSeq(p, LastSep(p) + 1, Len(p))

\* Mutant of EndsWithPy: any suffix passes for a Python file.
EndsWithPyAnySuffix(p) == Len(p) > 0 /\ p[Len(p)] \in {".py", ".txt"}

\* str.endswith('.py'); a suffix is one token of the path.
EndsWithPy(p) == Len(p) > 0 /\ p[Len(p)] = ".py"

\* Is this token a suffix token (".py", ".txt")?
IsSuffixToken(tok) == tok \in {".py", ".txt"}

\* pathlib.Path(name).stem: the final component without its last suffix; a
\* name that is only a suffix (".py") is a hidden file and keeps its name.
Stem(name) ==
    LET b == Basename(name)
    IN  IF Len(b) > 1 /\ IsSuffixToken(b[Len(b)])
        THEN SubSeq(b, 1, Len(b) - 1)
        ELSE b

\* The working directory of the process.
Cwd == <<"/", "srv">>

\* os.path.abspath
Abspath(p) == IF Len(p) > 0 /\ p[1] = "/" THEN p ELSE Cwd \o <<"/">> \o p

\* The input files on disk, by absolute path.
DiskFiles ==
    (Abspath(<<"main", ".py">>) :> <<"x = 1", "\n", "y = 2", "\n">>)
    @@ (Abspath(<<"empty", ".py">>) :> <<>>)
    @@ (Abspath(<<"pkg", "/", "mod", ".py">>) :> <<"print('{code_file_name}')">>)
    @@ (Abspath(<<"notes", ".txt">>) :> <<"hello">>)

\* os.path.exists
Exists(p) == Abspath(p) \in DOMAIN DiskFiles

\* open(path).read()
ReadFile(p) == DiskFiles[p]

\* ------------------------------------------------------------- splitlines
\* Number of "\n" tokens among the first n tokens of s.
RECURSIVE CountNL(_, _)
CountNL(s, n) ==
    IF n = 0 THEN 0
    ELSE CountNL(s, n - 1) + (IF s[n] = "\n" THEN 1 ELSE 0)

\* Position of the k-th "\n" of s (0 for k = 0).
NthNL(s, k) ==
    IF k = 0 THEN 0
    ELSE CHOOSE i \in 1..Len(s) : s[i] = "\n" /\ CountNL(s, i) = k

\* str.splitlines(): the lines without their terminators; a trailing
\* terminator does not open a further, empty line.
Splitlines(s) ==
    LET nl    == CountNL(s, Len(s))
        tail  == SubSeq(s, NthNL(s, nl) + 1, Len(s))
        whole == [k \in 1..nl |-> SubSeq(s, NthNL(s, k - 1) + 1, NthNL(s, k) - 1)]
    IN  IF tail = <<>> THEN whole ELSE Append(whole, tail)

\* ------------------------------------------------------------- str.format
Lit(s) == <<"lit", s>>
Field(n) == <<"field", n>>

\* The first replacement field of tpl that kw does not supply, "" when all
\* of them are supplied (format raises KeyError for that name).
FormatMissing(tpl, kw) ==
    LET bad == { i \in 1..Len(tpl) : tpl[i][1] = "field" /\ tpl[i][2] \notin DOMAIN kw }
    IN  IF bad = {} THEN ""
        ELSE tpl[CHOOSE i \in bad : \A j \in bad : i <= j][2]

\* str.format(**kw) on a template whose fields are all supplied: literals
\* are copied, each field is replaced by its value; a value is inserted as
\* text and never parsed again.
RECURSIVE FormatUpTo(_, _, _)
FormatUpTo(tpl, kw, n) ==
    IF n = 0 THEN <<>>
    ELSE FormatUpTo(tpl, kw, n - 1)
         \o (IF tpl[n][1] = "field" THEN kw[tpl[n][2]] ELSE <<tpl[n][2]>>)

Format(tpl, kw) == FormatUpTo(tpl, kw, Len(tpl))

\* ------------------------------------------------------ fixed name tables
agent_names == << "bug_detector_agent", "security_analyzer_agent",
                  "performance_analyzer_agent", "documentation_analyzer_agent" >>

\* Mutant of task_names: performance_analysis is built before security_analysis.
task_names_reordered == << "bug_detection_task", "performance_analysis_task",
                           "security_analysis_task", "documentation_review_task" >>

task_names == << "bug_detection_task", "security_analysis_task",
                 "performance_analysis_task", "documentation_review_task" >>

agent_mapping ==
    ("bug_detection_task" :> "bug_detector_agent")
    @@ ("security_analysis_task" :> "security_analyzer_agent")
    @@ ("performance_analysis_task" :> "performance_analyzer_agent")
    @@ ("documentation_review_task" :> "documentation_analyzer_agent")

task_dependencies ==
    ("bug_detection_task" :> <<>>)
    @@ ("security_analysis_task" :> <<"bug_detection_task">>)
    @@ ("performance_analysis_task" :> <<"bug_detection_task", "security_analysis_task">>)
    @@ ("documentation_review_task" :>
            <<"bug_detection_task", "security_analysis_task", "performance_analysis_task">>)

\* The elements of a sequence.
Range(s) == { s[i] : i \in 1..Len(s) }

\* A dict restricted to some of its keys.
Restrict(d, keys) == [k \in (DOMAIN d) \cap keys |-> d[k]]


\* dict.get(key, default)
Get(d, key, default) == IF key \in DOMAIN d THEN d[key] ELSE default

\* ---------------------------------------------------------------- inputs
\* File paths (or display names) a caller passes as code_file_path.
PathArgs ==
    { <<"main", ".py">>, <<"empty", ".py">>, <<"pkg", "/", "mod", ".py">>,
      <<"notes", ".txt">>, <<"gone", ".py">>, <<"gone", ".txt">>,
      <<"upload", ".py">>, <<"GITHUB_REPO">> }

\* Values a caller passes as code_content (None when omitted).
ContentArgs ==
    { PyNone, <<>>, <<"import os">>, <<"a = 1", "\n", "{b}", "\n">> }

\* One entry of agents.yaml; the optional flags are present for some agents.
AgentEntry(name) ==
    ("role" :> <<"role:", name>>) @@ ("goal" :> <<"goal:", name>>)
    @@ ("backstory" :> <<"backstory:", name>>)
    @@ (IF name = "bug_detector_agent"
        THEN ("verbose" :> FALSE) @@ ("allow_delegation" :> TRUE) @@ ("memory" :> FALSE)
        ELSE EmptyDict)

FullAgents == [n \in Range(agent_names) |-> AgentEntry(n)]

\* Description templates of tasks.yaml.
GoodTemplate(name) ==
    IF name = "bug_detection_task"
    THEN << Lit("Review "), Field("code_file_path"), Lit(" ("), Field("code_file_name"),
            Lit("), lines: "), Field("total_lines"), Lit(", at "), Field("datetime"),
            Lit("\n"), Field("code_content") >>
    ELSE << Lit(name), Lit(" for "), Field("code_file_name"), Lit(" at "),
            Field("datetime") >>

\* A template with a replacement field the builder does not supply.
BadTemplate(name) ==
    IF name = "security_analysis_task"
    THEN << Lit("Check "), Field("code_file_name"), Lit(" severity "), Field("severity") >>
    ELSE GoodTemplate(name)

TaskEntry(tpl, name) ==
    ("description" :> tpl) @@ ("expected_output" :> <<"expected:", name>>)

GoodTasks == [n \in Range(task_names) |-> TaskEntry(GoodTemplate(n), n)]
BadTasks == [n \in Range(task_names) |-> TaskEntry(BadTemplate(n), n)]

\* Documents with all four keys or with exactly one of them absent.
AtMostOneAbsent(names) == { S \in SUBSET names : Cardinality(names \ S) <= 1 }

\* A configuration file on disk: absent, not parseable, empty (it parses to
\* None) or holding a mapping.
NoDocFiles ==
    { [status |-> s, doc |-> EmptyDict] : s \in {"missing", "malformed", "empty"} }

AgentFiles ==
    NoDocFiles \cup
    { [status |-> "ok", doc |-> Restrict(FullAgents, S)] :
        S \in AtMostOneAbsent(Range(agent_names)) }

TaskFiles ==
    NoDocFiles \cup
    { [status |-> "ok", doc |-> Restrict(d, S)] :
        d \in {GoodTasks, BadTasks}, S \in AtMostOneAbsent(Range(task_names)) }

\* What the external engine can hand back: an object with a raw text, with
\* a raw attribute that is None, or without a raw attribute.
EngineResults ==
    { [hasRaw |-> TRUE, raw |-> <<"## Findings", "\n", "none">>, repr |-> <<"CrewOutput(..)">>],
      [hasRaw |-> TRUE, raw |-> PyNone, repr |-> <<"CrewOutput(None)">>],
      [hasRaw |-> FALSE, raw |-> PyNone, repr |-> <<"plain report">>] }

\* What the external engine can raise.
EngineErrors ==
    { [kind |-> "RuntimeError", msg |-> <<"LLM call failed">>],
      [kind |-> "KeyboardInterrupt", msg |-> <<>>] }

\* What opening or writing an output file can raise.
WriteError == [kind |-> "PermissionError", msg |-> <<"output directory not writable">>]

NoResult == [hasRaw |-> FALSE, raw |-> PyNone, repr |-> <<>>]

\* ----------------------------------------------------------------- state
VARIABLES
    args,       \* per crew: the constructor's arguments
    cfgFiles,   \* agents.yaml and tasks.yaml as they are on disk
    outDirOk,   \* can the output directory be created (or does it exist)
    now,        \* the wall clock, in seconds
    files,      \* the output directory: path -> content
    pc,         \* per crew: where its constructor / run() stands
    self,       \* per crew: the attributes of the CodeReviewCrew object
    loc,        \* per crew: the locals of the method being executed
    exc,        \* per crew: the exception that left the constructor or run()
    ret,        \* per crew: the value run() returned
    log,        \* per crew: calls made to the external framework and the disk
    host        \* per crew: the entry point (CLI or HTTP handler) that owns it

vars == << args, cfgFiles, outDirOk, now, files, pc, self, loc, exc, ret, log, host >>

\* No entry point is modelled around the crew: some caller constructs and runs it.
NoHost ==
    [ kind |-> "none", hpc |-> "none", status |-> 0, detail |-> <<>>, raised |-> NoExc,
      pending |-> [status |-> 0, detail |-> <<>>],
      temp_dir |-> "none", rmtree |-> 0, rmFailed |-> FALSE,
      repo_url |-> <<>>, cloned |-> FALSE, repo |-> <<>>, selected_files |-> PyNone,
      py_files |-> <<>>, files_to_analyze |-> <<>>, combined_content |-> <<>> ]

NewSelf ==
    [ attrs |-> {}, output_dir |-> <<>>, code_file_path |-> <<>>, code_file_name |-> <<>>,
      code_content |-> <<>>, code_lines |-> <<>>,
      agents_config |-> [none |-> FALSE, doc |-> EmptyDict],
      tasks_config |-> [none |-> FALSE, doc |-> EmptyDict],
      agents |-> EmptyDict, tasks |-> <<>> ]

NewLoc ==
    [ i |-> 1, agents |-> EmptyDict, task_objects |-> EmptyDict, tasks |-> <<>>,
      result |-> NoResult, timestamp |-> "", result_text |-> <<>> ]

NewLog ==
    [ agentCalls |-> 0, taskCalls |-> 0, skipped |-> 0,
      kickoffs |-> 0, engineExc |-> NoExc, saveExc |-> NoExc, written |-> <<>> ]

OutputDir == <<"output">>

TypeOK ==
    /\ now \in 0..MaxClock
    /\ outDirOk \in BOOLEAN
    /\ \A c \in Crews :
        /\ pc[c] \in { "idle", "new", "makedirs", "load_agents", "load_tasks", "create_agents",
                       "create_tasks", "constructed", "init_failed",
                       "save_md", "save_raw", "run_tail", "returned", "run_raised" }
        /\ loc[c].i \in 1..5

\* No crew has done anything yet; the clock starts and the output directory
\* holds nothing.
InitCrews ==
    /\ now = 0
    /\ files = EmptyDict
    /\ self = [c \in Crews |-> NewSelf]
    /\ loc = [c \in Crews |-> NewLoc]
    /\ exc = [c \in Crews |-> NoExc]
    /\ ret = [c \in Crews |-> NoResult]
    /\ log = [c \in Crews |-> NewLog]

Init ==
    /\ \E p \in PathArgs, t \in ContentArgs :
          args = [c \in Crews |-> [code_file_path |-> p, code_content |-> t]]
    /\ \E a \in AgentFiles, t \in TaskFiles : cfgFiles = [agents |-> a, tasks |-> t]
    /\ outDirOk \in BOOLEAN
    /\ pc = [c \in Crews |-> "new"]
    /\ host = [c \in Crews |-> NoHost]
    /\ InitCrews

\* The constructor raises: no object comes into being.
Raise(c, e, at) ==
    /\ exc' = [exc EXCEPT ![c] = e]
    /\ pc' = [pc EXCEPT ![c] = at]


\* -------------------------------------------------- __init__: the input
\* Mutant of InputOutcome: the display name given with direct content is made
\* absolute like a file path.
InputOutcomeAbsolutises(path, content) ==
    IF Truthy(content)
    THEN [ exc |-> NoExc, code_file_path |-> Abspath(path),
           code_content |-> content, code_lines |-> Splitlines(content) ]
    ELSE IF ~Exists(path)
    THEN [ exc |-> [kind |-> "FileNotFoundError",
                    msg |-> <<"Code file not found: ">> \o path],
           code_file_path |-> path, code_content |-> <<>>, code_lines |-> <<>> ]
    ELSE IF ~EndsWithPy(path)
    THEN [ exc |-> [kind |-> "ValueError",
                    msg |-> <<"File must be a Python file (.py): ">> \o path],
           code_file_path |-> path, code_content |-> <<>>, code_lines |-> <<>> ]
    ELSE [ exc |-> NoExc, code_file_path |-> Abspath(path),
           code_content |-> ReadFile(Abspath(path)),
           code_lines |-> Splitlines(ReadFile(Abspath(path))) ]

\* Lines 72-96: direct content when it is truthy, otherwise the file, which
\* must exist (checked first) and end in .py.
InputOutcome(path, content) ==
    IF Truthy(content)
    THEN [ exc |-> NoExc, code_file_path |-> path,
           code_content |-> content, code_lines |-> Splitlines(content) ]
    ELSE IF ~Exists(path)
    THEN [ exc |-> [kind |-> "FileNotFoundError",
                    msg |-> <<"Code file not found: ">> \o path],
           code_file_path |-> path, code_content |-> <<>>, code_lines |-> <<>> ]
    ELSE IF ~EndsWithPy(path)
    THEN [ exc |-> [kind |-> "ValueError",
                    msg |-> <<"File must be a Python file (.py): ">> \o path],
           code_file_path |-> path, code_content |-> <<>>, code_lines |-> <<>> ]
    ELSE [ exc |-> NoExc, code_file_path |-> Abspath(path),
           code_content |-> ReadFile(Abspath(path)),
           code_lines |-> Splitlines(ReadFile(Abspath(path))) ]

\* Mutant of InitInput: the agent document is loaded before the input is
\* validated.
InitInputAfterConfig(c) ==
    /\ pc[c] = "new"
    /\ LET a == args[c]
           o == InputOutcome(a.code_file_path, a.code_content)
       IN  /\ self' = [self EXCEPT ![c] =
                 [@ EXCEPT !.attrs = { "output_dir", "code_file_path", "code_file_name",
                                      "agents_config" },
                           !.agents_config = [none |-> FALSE, doc |-> cfgFiles.agents.doc],
                           !.output_dir = OutputDir,
                           !.code_file_path = o.code_file_path,
                           !.code_file_name = Basename(a.code_file_path),
                           !.code_content = o.code_content,
                           !.code_lines = o.code_lines ]]
           /\ IF o.exc = NoExc
              THEN pc' = [pc EXCEPT ![c] = "makedirs"] /\ exc' = exc
              ELSE Raise(c, o.exc, "init_failed")
    /\ UNCHANGED << host, args, cfgFiles, outDirOk, now, files, loc, ret, log >>

InitInput(c) ==
    /\ pc[c] = "new"
    /\ LET a == args[c]
           o == InputOutcome(a.code_file_path, a.code_content)
       IN  /\ self' = [self EXCEPT ![c] =
                 [@ EXCEPT !.attrs = IF o.exc = NoExc
                                     THEN { "output_dir", "code_file_path", "code_file_name",
                                            "code_content", "code_lines" }
                                     ELSE { "output_dir", "code_file_path", "code_file_name" },
                           !.output_dir = OutputDir,
                           !.code_file_path = o.code_file_path,
                           !.code_file_name = Basename(a.code_file_path),
                           !.code_content = o.code_content,
                           !.code_lines = o.code_lines ]]
           /\ IF o.exc = NoExc
              THEN pc' = [pc EXCEPT ![c] = "makedirs"] /\ exc' = exc
              ELSE Raise(c, o.exc, "init_failed")
    /\ UNCHANGED << host, args, cfgFiles, outDirOk, now, files, loc, ret, log >>

\* Line 99: os.makedirs(output_dir, exist_ok=True)
InitMakedirs(c) ==
    /\ pc[c] = "makedirs"
    /\ IF outDirOk
       THEN pc' = [pc EXCEPT ![c] = "load_agents"] /\ exc' = exc
       ELSE Raise(c, [kind |-> "OSError", msg |-> <<"cannot create ">> \o OutputDir],
                  "init_failed")
    /\ UNCHANGED << host, args, cfgFiles, outDirOk, now, files, self, loc, ret, log >>

\* ---------------------------------------------------------- _load_yaml
\* Lines 121-127: any failure of open or of the parser is wrapped in a
\* RuntimeError; an empty document parses to None, which is returned.
LoadYaml(file, name) ==
    IF file.status \in {"missing", "malformed"}
    THEN [ exc |-> [kind |-> "RuntimeError",
                    msg |-> <<"Failed to load ", name, ": ", file.status>>],
           value |-> [none |-> FALSE, doc |-> EmptyDict] ]
    ELSE [ exc |-> NoExc,
           value |-> [none |-> (file.status = "empty"), doc |-> file.doc] ]

\* Line 110
LoadAgentsYaml(c) ==
    /\ pc[c] = "load_agents"
    /\ LET r == LoadYaml(cfgFiles.agents, "agents.yaml")
       IN  IF r.exc = NoExc
           THEN /\ self' = [self EXCEPT ![c] =
                      [@ EXCEPT !.agents_config = r.value,
                                !.attrs = @ \cup {"config_dir", "agents_config"}]]
                /\ pc' = [pc EXCEPT ![c] = "load_tasks"]
                /\ exc' = exc
           ELSE /\ self' = [self EXCEPT ![c].attrs = @ \cup {"config_dir"}]
                /\ Raise(c, r.exc, "init_failed")
    /\ UNCHANGED << host, args, cfgFiles, outDirOk, now, files, loc, ret, log >>

\* Line 111
LoadTasksYaml(c) ==
    /\ pc[c] = "load_tasks"
    /\ LET r == LoadYaml(cfgFiles.tasks, "tasks.yaml")
       IN  IF r.exc = NoExc
           THEN /\ self' = [self EXCEPT ![c] =
                      [@ EXCEPT !.tasks_config = r.value,
                                !.attrs = @ \cup {"tasks_config"}]]
                /\ pc' = [pc EXCEPT ![c] = "create_agents"]
                /\ exc' = exc
           ELSE /\ self' = self
                /\ Raise(c, r.exc, "init_failed")
    /\ loc' = [loc EXCEPT ![c] = NewLoc]
    /\ UNCHANGED << host, args, cfgFiles, outDirOk, now, files, ret, log >>

\* `key in config` on what _load_yaml returned: None is not iterable.
NotIterable == [kind |-> "TypeError", msg |-> <<"argument of type 'NoneType' is not iterable">>]

\* ------------------------------------------------------- _create_agents
\* Lines 146-153: the Agent built from one configuration entry.
MakeAgent(config) ==
    [ role |-> config["role"], goal |-> config["goal"], backstory |-> config["backstory"],
      verbose |-> Get(config, "verbose", TRUE),
      allow_delegation |-> Get(config, "allow_delegation", FALSE),
      memory |-> Get(config, "memory", TRUE) ]

\* Line 142
MissingAgentError(agent_name) ==
    [kind |-> "KeyError", msg |-> <<"Agent '", agent_name, "' not found in agents.yaml">>]

\* Lines 140-153: one iteration of the loop over agent_names.
CreateAgentsStep(c) ==
    /\ pc[c] = "create_agents"
    /\ loc[c].i <= Len(agent_names)
    /\ LET agent_name == agent_names[loc[c].i]
           cfg == self[c].agents_config
       IN  IF cfg.none
           THEN Raise(c, NotIterable, "init_failed") /\ UNCHANGED << loc, log >>
           ELSE IF agent_name \notin DOMAIN cfg.doc
           THEN /\ Raise(c, MissingAgentError(agent_name), "init_failed")
                /\ UNCHANGED << loc, log >>
           ELSE /\ loc' = [loc EXCEPT ![c] =
                      [@ EXCEPT !.agents = (agent_name :> MakeAgent(cfg.doc[agent_name])) @@ @,
                                !.i = @ + 1]]
                /\ log' = [log EXCEPT ![c].agentCalls = @ + 1]
                /\ UNCHANGED << pc, exc >>
    /\ UNCHANGED << host, args, cfgFiles, outDirOk, now, files, self, ret >>

\* Lines 155-156 and 114: the dict is returned and stored as self.agents.
CreateAgentsReturn(c) ==
    /\ pc[c] = "create_agents"
    /\ loc[c].i > Len(agent_names)
    /\ self' = [self EXCEPT ![c] =
          [@ EXCEPT !.agents = loc[c].agents, !.attrs = @ \cup {"agents"}]]
    /\ loc' = [loc EXCEPT ![c] = NewLoc]
    /\ pc' = [pc EXCEPT ![c] = "create_tasks"]
    /\ UNCHANGED << host, args, cfgFiles, outDirOk, now, files, exc, ret, log >>


\* -------------------------------------------------------- _create_tasks
\* datetime.now(): the clock may have advanced since it was last read.
ClockReadings(t) == { u \in t..(t + 1) : u <= MaxClock }

\* Mutant of FormatArgs: the line count is mixed up with the clock reading.
FormatArgsClockInLines(me, t) ==
    ("code_file_path" :> me.code_file_path)
    @@ ("code_file_name" :> me.code_file_name)
    @@ ("code_content" :> me.code_content)
    @@ ("total_lines" :> <<IntStr(Len(me.code_lines) + t)>>)
    @@ ("datetime" :> <<Strftime(t, "%Y-%m-%d %H:%M:%S")>>)

\* Mutant of FormatArgs: a placeholder the builder does not know is supplied
\* with its own text, so that it survives in the description.
FormatArgsKeepsUnknown(me, t) ==
    ("code_file_path" :> me.code_file_path)
    @@ ("code_file_name" :> me.code_file_name)
    @@ ("code_content" :> me.code_content)
    @@ ("total_lines" :> <<IntStr(Len(me.code_lines))>>)
    @@ ("datetime" :> <<Strftime(t, "%Y-%m-%d %H:%M:%S")>>)
    @@ ("severity" :> <<"{severity}">>)

\* Lines 194-198: the keyword arguments given to str.format.
FormatArgs(me, t) ==
    ("code_file_path" :> me.code_file_path)
    @@ ("code_file_name" :> me.code_file_name)
    @@ ("code_content" :> me.code_content)
    @@ ("total_lines" :> <<IntStr(Len(me.code_lines))>>)
    @@ ("datetime" :> <<Strftime(t, "%Y-%m-%d %H:%M:%S")>>)

\* Mutant of ResolveContext: each dependency found is put in front of the list.
RECURSIVE ReverseSeq(_)
ReverseSeq(q) == IF q = <<>> THEN <<>> ELSE Append(ReverseSeq(Tail(q)), Head(q))

ResolveContextNewestFirst(task_name, task_objects) ==
    ReverseSeq(SelectSeq(task_dependencies[task_name],
                         LAMBDA dep : dep \in DOMAIN task_objects))

\* Lines 204-207: the dependencies of a task that are already built, in the
\* order of the dependency table.
ResolveContext(task_name, task_objects) ==
    SelectSeq(task_dependencies[task_name], LAMBDA dep : dep \in DOMAIN task_objects)

\* Lines 209-214: the Task; a task object is referred to by its key in
\* task_objects (its identity), and an empty context is passed as None.
MakeTask(task_name, description, expected_output, agent, context) ==
    [ id |-> task_name, description |-> description, expected_output |-> expected_output,
      agent |-> agent, context |-> IF context # <<>> THEN context ELSE PyNone ]

\* Mutant of MissingTaskError: the message names the task's agent.
MissingTaskErrorNamesAgent(task_name) ==
    [kind |-> "KeyError",
     msg |-> <<"Task '", agent_mapping[task_name], "' not found in tasks.yaml">>]

\* Line 187
MissingTaskError(task_name) ==
    [kind |-> "KeyError", msg |-> <<"Task '", task_name, "' not found in tasks.yaml">>]

\* Lines 185-217: one iteration of the loop over task_names.
CreateTasksStep(c) ==
    /\ pc[c] = "create_tasks"
    /\ loc[c].i <= Len(task_names)
    /\ LET task_name == task_names[loc[c].i]
           cfg == self[c].tasks_config
       IN  IF cfg.none
           THEN Raise(c, NotIterable, "init_failed") /\ UNCHANGED << loc, log, now >>
           ELSE IF task_name \notin DOMAIN cfg.doc
           THEN /\ Raise(c, MissingTaskError(task_name), "init_failed")
                /\ UNCHANGED << loc, log, now >>
           ELSE \E t \in ClockReadings(now) :
                LET config == cfg.doc[task_name]
                    kw == FormatArgs(self[c], t)
                    missing == FormatMissing(config["description"], kw)
                    context == ResolveContext(task_name, loc[c].task_objects)
                    task == MakeTask(task_name, Format(config["description"], kw),
                                     config["expected_output"],
                                     self[c].agents[agent_mapping[task_name]], context)
                IN  /\ now' = t
                    /\ IF missing # ""
                       THEN /\ Raise(c, [kind |-> "KeyError", msg |-> <<missing>>],
                                     "init_failed")
                            /\ UNCHANGED << loc, log >>
                       ELSE /\ loc' = [loc EXCEPT ![c] =
                                  [@ EXCEPT !.task_objects = (task_name :> task) @@ @,
                                            !.tasks = Append(@, task),
                                            !.i = @ + 1]]
                            /\ log' = [log EXCEPT ![c] =
                                  [@ EXCEPT !.taskCalls = @ + 1,
                                            !.skipped = @ + Len(task_dependencies[task_name])
                                                          - Len(context)]]
                            /\ UNCHANGED << pc, exc >>
    /\ UNCHANGED << host, args, cfgFiles, outDirOk, files, self, ret >>

\* Lines 219-220 and 115-119: the list is returned and stored as self.tasks;
\* the constructor is done.
CreateTasksReturn(c) ==
    /\ pc[c] = "create_tasks"
    /\ loc[c].i > Len(task_names)
    /\ self' = [self EXCEPT ![c] =
          [@ EXCEPT !.tasks = loc[c].tasks, !.attrs = @ \cup {"tasks"}]]
    /\ loc' = [loc EXCEPT ![c] = NewLoc]
    /\ pc' = [pc EXCEPT ![c] = "constructed"]
    /\ UNCHANGED << host, args, cfgFiles, outDirOk, now, files, exc, ret, log >>

\* ------------------------------------------------------------------ run
\* Mutant of RunExcept: the handler raises a new exception around the cause.
RunExceptWrapped(e) == [kind |-> "RuntimeError", msg |-> <<"Code review failed: ">> \o e.msg]

\* Lines 260-262: the handler prints and re-raises what it caught (an
\* exception it does not catch passes through on its own).
RunExcept(e) == e

\* Lines 229-247: the banner (one clock reading), the Crew and kickoff(); the
\* engine returns a result or raises.
RunKickoff(c) ==
    /\ pc[c] = "constructed"
    /\ \E t \in ClockReadings(now) : now' = t
    /\ \/ \E r \in EngineResults :
            /\ loc' = [loc EXCEPT ![c].result = r]
            /\ log' = [log EXCEPT ![c].kickoffs = @ + 1]
            /\ pc' = [pc EXCEPT ![c] = "save_md"]
            /\ exc' = exc
       \/ \E e \in EngineErrors :
            /\ log' = [log EXCEPT ![c] = [@ EXCEPT !.kickoffs = @ + 1, !.engineExc = e]]
            /\ Raise(c, RunExcept(e), "run_raised")
            /\ loc' = loc
    /\ UNCHANGED << host, args, cfgFiles, outDirOk, files, self, ret >>

\* -------------------------------------------------------- _save_results
\* Mutant of ResultText: the raw attribute is ignored.
ResultTextIgnoresRaw(result) == Str(result.repr)

\* Line 279: the text of the result.
ResultText(result) == IF result.hasRaw THEN Str(result.raw) ELSE Str(result.repr)

\* Lines 273-276: what is written before the result.
ReportHeader(code_file_name, t) ==
    <<"# Code Review Report\n\n">>
    \o <<"**File**: ">> \o code_file_name \o <<"\n">>
    \o <<"**Date**: ", Strftime(t, "%Y-%m-%d %H:%M:%S"), "\n\n">>
    \o <<"---\n\n">>

\* Line 270
ReportPath(me, timestamp) ==
    me.output_dir \o <<"/">> \o Stem(me.code_file_name) \o <<"_review_", timestamp, ".md">>

\* Mutant of RawPath: the raw copy is named from a fresh clock reading.
RawPathFreshStamp(me, timestamp) ==
    me.output_dir \o <<"/">> \o Stem(me.code_file_name)
    \o <<"_raw_", Strftime(now, "%Y%m%d_%H%M%S"), ".txt">>

\* Line 285
RawPath(me, timestamp) ==
    me.output_dir \o <<"/">> \o Stem(me.code_file_name) \o <<"_raw_", timestamp, ".txt">>

\* Lines 272-280: what the markdown file holds when it is closed.
ReportContent(me, result, t) == ReportHeader(me.code_file_name, t) \o ResultText(result)

\* Lines 286-287: what the raw file holds when it is closed.
RawContent(result_text) == result_text

\* Lines 266-282: the timestamp (one clock reading), then the markdown file
\* (a second reading for its date); open() or write() may fail.
SaveMarkdown(c) ==
    /\ pc[c] = "save_md"
    /\ \E t1 \in ClockReadings(now) :
         LET timestamp == Strftime(t1, "%Y%m%d_%H%M%S")
             report_path == ReportPath(self[c], timestamp)
         IN  \/ /\ now' = t1
                /\ Raise(c, RunExcept(WriteError), "run_raised")
                /\ loc' = [loc EXCEPT ![c].timestamp = timestamp]
                /\ log' = [log EXCEPT ![c].saveExc = WriteError]
                /\ files' = files
             \/ \E t2 \in ClockReadings(t1) :
                /\ now' = t2
                /\ files' = (report_path :> ReportContent(self[c], loc[c].result, t2)) @@ files
                /\ log' = [log EXCEPT ![c].written = Append(@, report_path)]
                /\ loc' = [loc EXCEPT ![c] =
                      [@ EXCEPT !.timestamp = timestamp,
                                !.result_text = ResultText(loc[c].result)]]
                /\ pc' = [pc EXCEPT ![c] = "save_raw"]
                /\ exc' = exc
    /\ UNCHANGED << host, args, cfgFiles, outDirOk, self, ret >>

\* Mutant of SaveRaw: a failure to write the raw copy is swallowed and the
\* run carries on to return the result.
SaveRawSwallowsFailure(c) ==
    /\ pc[c] = "save_raw"
    /\ LET raw_path == RawPath(self[c], loc[c].timestamp)
       IN  \/ /\ log' = [log EXCEPT ![c].saveExc = WriteError]
              /\ files' = files
           \/ /\ files' = (raw_path :> RawContent(loc[c].result_text)) @@ files
              /\ log' = [log EXCEPT ![c].written = Append(@, raw_path)]
    /\ pc' = [pc EXCEPT ![c] = "run_tail"]
    /\ UNCHANGED << host, args, cfgFiles, outDirOk, now, self, loc, exc, ret >>

\* Lines 284-289: the raw copy, named with the same timestamp.
SaveRaw(c) ==
    /\ pc[c] = "save_raw"
    /\ LET raw_path == RawPath(self[c], loc[c].timestamp)
       IN  \/ /\ Raise(c, RunExcept(WriteError), "run_raised")
              /\ log' = [log EXCEPT ![c].saveExc = WriteError]
              /\ files' = files
           \/ /\ files' = (raw_path :> RawContent(loc[c].result_text)) @@ files
              /\ log' = [log EXCEPT ![c].written = Append(@, raw_path)]
              /\ pc' = [pc EXCEPT ![c] = "run_tail"]
              /\ exc' = exc
    /\ UNCHANGED << host, args, cfgFiles, outDirOk, now, self, loc, ret >>

\* Lines 252-258: the closing banner and `return result`.
RunReturn(c) ==
    /\ pc[c] = "run_tail"
    /\ ret' = [ret EXCEPT ![c] = loc[c].result]
    /\ pc' = [pc EXCEPT ![c] = "returned"]
    /\ UNCHANGED << host, args, cfgFiles, outDirOk, now, files, self, loc, exc, log >>

\* ------------------------------------------------------ specifications
\* The steps of the constructor.
Build(c) ==
    \/ InitInput(c)
    \/ InitMakedirs(c)
    \/ LoadAgentsYaml(c)
    \/ LoadTasksYaml(c)
    \/ CreateAgentsStep(c)
    \/ CreateAgentsReturn(c)
    \/ CreateTasksStep(c)
    \/ CreateTasksReturn(c)

\* The steps of run().
Run(c) ==
    \/ RunKickoff(c)
    \/ SaveMarkdown(c)
    \/ SaveRaw(c)
    \/ RunReturn(c)

\* One review: a caller constructs a crew and runs it.
Next == Build(1) \/ Run(1)

Spec == Init /\ [][Next]_vars

\* Two independent builds from the same arguments, the same configuration
\* files and the same working directory, interleaved freely.
NextBuilds == \E c \in Crews : Build(c)

SpecBuilds == Init /\ [][NextBuilds]_vars

\* Two GitHub review requests served at the same time: each handler builds
\* its own crew under the display name GITHUB_REPO from the content it
\* combined, with the default output directory, and runs it.
InitRuns ==
    /\ args = (1 :> [code_file_path |-> <<"GITHUB_REPO">>,
                     code_content |-> <<"import os">>])
              @@ (2 :> [code_file_path |-> <<"GITHUB_REPO">>,
                        code_content |-> <<"a = 1", "\n", "{b}", "\n">>])
    /\ cfgFiles = [agents |-> [status |-> "ok", doc |-> FullAgents],
                   tasks |-> [status |-> "ok", doc |-> GoodTasks]]
    /\ outDirOk = TRUE
    /\ pc = [c \in Crews |-> "new"]
    /\ host = [c \in Crews |-> NoHost]
    /\ InitCrews

NextRuns == \E c \in Crews : Build(c) \/ Run(c)

SpecRuns == InitRuns /\ [][NextRuns]_vars

\* ------------------------------------------------------ crew.py: main()
\* The classes an exception of each kind is an instance of.
Mro(kind) ==
    CASE kind = "FileNotFoundError" -> {"FileNotFoundError", "OSError", "Exception", "BaseException"}
      [] kind = "PermissionError"   -> {"PermissionError", "OSError", "Exception", "BaseException"}
      [] kind = "OSError"           -> {"OSError", "Exception", "BaseException"}
      [] kind = "ValueError"        -> {"ValueError", "Exception", "BaseException"}
      [] kind = "RuntimeError"      -> {"RuntimeError", "Exception", "BaseException"}
      [] kind = "TypeError"         -> {"TypeError", "Exception", "BaseException"}
      [] kind = "KeyError"          -> {"KeyError", "LookupError", "Exception", "BaseException"}
      [] kind = "HTTPException"     -> {"HTTPException", "Exception", "BaseException"}
      [] kind = "GitCommandError"   -> {"GitCommandError", "GitError", "Exception", "BaseException"}
      [] kind = "KeyboardInterrupt" -> {"KeyboardInterrupt", "BaseException"}
      [] OTHER                      -> {}

\* `except cls` catches e.
IsInstance(e, cls) == cls \in Mro(e.kind)

\* Mutant of MainExitCode: an interrupt ends the process like any failure.
MainExitCodeInterruptAsFailure(e) ==
    IF e = NoExc THEN 0 ELSE 1

\* Lines 331-355: the exit status main() ends the process with, given what
\* came out of the try block (NoExc when it ran to its end).  The except
\* clauses are tried in the order written; the last alternative is the
\* interpreter's status for an exception nobody caught.
MainExitCode(e) ==
    IF e = NoExc THEN 0
    ELSE IF IsInstance(e, "FileNotFoundError") THEN 1
    ELSE IF IsInstance(e, "ValueError") THEN 1
    ELSE IF IsInstance(e, "KeyboardInterrupt") THEN 130
    ELSE IF IsInstance(e, "Exception") THEN 1
    ELSE 1

\* Lines 331-337: main() passes the path from the command line and never any
\* direct content.
InitCli ==
    /\ \E p \in PathArgs :
          args = [c \in Crews |-> [code_file_path |-> p, code_content |-> PyNone]]
    /\ \E a \in AgentFiles, t \in TaskFiles : cfgFiles = [agents |-> a, tasks |-> t]
    /\ outDirOk \in BOOLEAN
    /\ pc = [c \in Crews |-> "new"]
    /\ host = [c \in Crews |-> [NoHost EXCEPT !.kind = "cli", !.hpc = "main"]]
    /\ InitCrews

\* Lines 339-355: the try block is over, with the review complete or with the
\* exception the constructor or run() let out, and the process ends.
MainExit(c) ==
    /\ host[c].kind = "cli" /\ host[c].hpc = "main"
    /\ pc[c] \in {"init_failed", "run_raised", "returned"}
    /\ host' = [host EXCEPT ![c] =
          [@ EXCEPT !.hpc = "exited",
                    !.raised = IF pc[c] = "returned" THEN NoExc ELSE exc[c],
                    !.status = MainExitCode(IF pc[c] = "returned" THEN NoExc ELSE exc[c])]]
    /\ UNCHANGED << args, cfgFiles, outDirOk, now, files, pc, self, loc, exc, ret, log >>

\* One process started from the command line.
NextCli == Build(1) \/ Run(1) \/ MainExit(1)

SpecCli == InitCli /\ [][NextCli]_vars


\* ------------------------------------------- app.py: the GitHub handlers
\* settings.py line 47: how many files are reviewed when none is selected.
GITHUB_DEFAULT_FILES == 5

\* A file of a cloned repository; utf8 tells whether it decodes as UTF-8.
RepoFile(path, text, utf8) == [path |-> path, text |-> text, utf8 |-> utf8]

\* Repositories a clone can produce, as os.walk lists their files: one without
\* Python files, one with a readable and an undecodable Python file, and one
\* with more Python files than are reviewed by default.
RepoDocsOnly == << RepoFile(<<"README", ".md">>, <<"# r">>, TRUE) >>

RepoSmall ==
    << RepoFile(<<"a", ".py">>, <<"import os">>, TRUE),
       RepoFile(<<"notes", ".txt">>, <<"todo">>, TRUE),
       RepoFile(<<"bad", ".py">>, <<>>, FALSE) >>

RepoSix ==
    [ k \in 1..6 |-> RepoFile(<<"pkg", "/", "m" \o ToString(k), ".py">>,
                              <<"x = " \o ToString(k)>>, TRUE) ]

Repos == { <<>>, RepoDocsOnly, RepoSmall, RepoSix }

\* The selected_files form field: absent, empty, or comma-separated paths.
SelectedArgs ==
    { PyNone, <<>>, <<"a", ".py">>, <<"bad", ".py">>,
      <<" ", "a", ".py", " ", ",", "gone", ".py", ",">> }

RepoUrls == { <<>>, <<"https://github.com/o/r">> }

\* HTTPException(status_code, detail)
HTTPException(status_code, detail) ==
    [kind |-> "HTTPException", msg |-> detail, status_code |-> status_code]

GitCommandError == [kind |-> "GitCommandError", msg |-> <<"git clone failed">>]

MkdtempError == [kind |-> "OSError", msg |-> <<"No space left on device">>]

\* str(e)
StrExc(e) ==
    IF e.kind = "HTTPException" THEN <<IntStr(e.status_code), ": ">> \o e.msg ELSE e.msg

\* Lines 182-187: what leaves the try statement of review_github_repo when e
\* was raised in its body.
GithubExcept(e) ==
    IF IsInstance(e, "GitCommandError")
    THEN HTTPException(400, <<"Failed to clone repository: ">> \o StrExc(e))
    ELSE IF IsInstance(e, "Exception")
    THEN HTTPException(500, StrExc(e))
    ELSE e

\* Lines 232-234: the same for list_python_files.
ListExcept(e) ==
    IF IsInstance(e, "Exception") THEN HTTPException(500, StrExc(e)) ELSE e

HandlerExcept(kind, e) == IF kind = "github" THEN GithubExcept(e) ELSE ListExcept(e)

\* What the client gets when e leaves the handler: the status and detail of
\* an HTTPException; status 0 stands for an exception the handler let through.
Respond(e) ==
    IF e.kind = "HTTPException"
    THEN [status |-> e.status_code, detail |-> e.msg]
    ELSE [status |-> 0, detail |-> e.msg]

\* The JSONResponse of a request that succeeded.
Success == [status |-> 200, detail |-> <<>>]

\* Lines 126-132: the relative paths of the files whose name ends with .py,
\* in the order of the walk.
RECURSIVE PyFiles(_)
PyFiles(repo) ==
    IF repo = <<>> THEN <<>>
    ELSE (IF EndsWithPy(Head(repo).path) THEN <<Head(repo).path>> ELSE <<>>)
         \o PyFiles(Tail(repo))

\* str.split(','): the pieces between the commas.
RECURSIVE SplitComma(_)
SplitComma(text) ==
    IF \A k \in 1..Len(text) : text[k] # ","
    THEN <<text>>
    ELSE LET k == CHOOSE j \in 1..Len(text) :
                     text[j] = "," /\ \A h \in 1..(j - 1) : text[h] # ","
         IN  <<SubSeq(text, 1, k - 1)>> \o SplitComma(SubSeq(text, k + 1, Len(text)))

\* str.strip(): without the blanks at both ends.
RECURSIVE Strip(_)
Strip(text) ==
    IF text = <<>> THEN <<>>
    ELSE IF Head(text) = " " THEN Strip(Tail(text))
    ELSE IF text[Len(text)] = " " THEN Strip(SubSeq(text, 1, Len(text) - 1))
    ELSE text

\* Lines 137-141: the files to analyze.
FilesToAnalyze(selected_files, py_files) ==
    IF Truthy(selected_files)
    THEN [ k \in 1..Len(SplitComma(selected_files)) |-> Strip(SplitComma(selected_files)[k]) ]
    ELSE SubSeq(py_files, 1, IF Len(py_files) < GITHUB_DEFAULT_FILES
                             THEN Len(py_files) ELSE GITHUB_DEFAULT_FILES)

\* Lines 145-153: what one selected file adds to the combined content:
\* nothing when it does not exist in the clone or cannot be read.
FileSection(repo, file_rel) ==
    LET hits == { k \in 1..Len(repo) : repo[k].path = file_rel }
    IN  IF hits = {} THEN <<>>
        ELSE LET f == repo[CHOOSE k \in hits : TRUE]
             IN  IF ~f.utf8 THEN <<>>
                 ELSE <<"\n", "\n", "=== FILE: ">> \o file_rel \o <<" ===", "\n">>
                      \o f.text \o <<"\n">>

\* Lines 143-153: combined_content
RECURSIVE CombinedContent(_, _)
CombinedContent(repo, files_to_analyze) ==
    IF files_to_analyze = <<>> THEN <<>>
    ELSE FileSection(repo, Head(files_to_analyze))
         \o CombinedContent(repo, Tail(files_to_analyze))

\* No request has set the arguments of a crew yet.
NoArgs == [code_file_path |-> <<>>, code_content |-> PyNone]

\* A request to /api/review/github or /api/files/list has arrived.
InitHttp ==
    /\ \E u \in RepoUrls :
          \/ \E sel \in SelectedArgs :
                host = [c \in Crews |-> [NoHost EXCEPT !.kind = "github", !.hpc = "start",
                                                       !.repo_url = u, !.selected_files = sel]]
          \/ host = [c \in Crews |-> [NoHost EXCEPT !.kind = "list", !.hpc = "start",
                                                    !.repo_url = u]]
    /\ args = [c \in Crews |-> NoArgs]
    /\ \E a \in AgentFiles, t \in TaskFiles : cfgFiles = [agents |-> a, tasks |-> t]
    /\ outDirOk \in BOOLEAN
    /\ pc = [c \in Crews |-> "idle"]
    /\ InitCrews

\* The handler leaves its try statement with exception e raised in the body.
Leave(c, e) ==
    [host[c] EXCEPT !.hpc = "finally", !.raised = e,
                    !.pending = Respond(HandlerExcept(host[c].kind, e))]

\* Lines 113-114, 202-203: the URL check, before the try statement.
HandlerStart(c) ==
    /\ host[c].hpc = "start"
    /\ host' = [host EXCEPT ![c] =
          IF ~Truthy(host[c].repo_url)
          THEN [@ EXCEPT !.hpc = "done", !.status = 400,
                         !.raised = HTTPException(400, <<"Repository URL is required">>),
                         !.pending = [status |-> 400, detail |-> <<"Repository URL is required">>],
                         !.detail = <<"Repository URL is required">>]
          ELSE [@ EXCEPT !.hpc = "clone"]]
    /\ UNCHANGED << args, cfgFiles, outDirOk, now, files, pc, self, loc, exc, ret, log >>

\* Lines 116-123, 205-209: mkdtemp and the clone; either can fail.
HandlerClone(c) ==
    /\ host[c].hpc = "clone"
    /\ \/ host' = [host EXCEPT ![c] = Leave(c, MkdtempError)]
       \/ host' = [host EXCEPT ![c] = [Leave(c, GitCommandError) EXCEPT !.temp_dir = "made"]]
       \/ \E r \in Repos :
            host' = [host EXCEPT ![c] =
                [@ EXCEPT !.temp_dir = "made", !.cloned = TRUE, !.repo = r, !.hpc = "scan"]]
    /\ UNCHANGED << args, cfgFiles, outDirOk, now, files, pc, self, loc, exc, ret, log >>

\* Lines 125-164 of review_github_repo: find the Python files, pick the files
\* to analyze, combine their content and call the constructor of the crew;
\* lines 211-229 of list_python_files: find the Python files and answer.
HandlerScan(c) ==
    /\ host[c].hpc = "scan"
    /\ LET py_files == PyFiles(host[c].repo)
           files_to_analyze == FilesToAnalyze(host[c].selected_files, py_files)
           combined_content == CombinedContent(host[c].repo, files_to_analyze)
       IN  IF host[c].kind = "list"
           THEN /\ host' = [host EXCEPT ![c] =
                        [@ EXCEPT !.py_files = py_files, !.hpc = "finally", !.pending = Success]]
                /\ UNCHANGED << args, pc >>
           ELSE IF ~Truthy(py_files)
           THEN /\ host' = [host EXCEPT ![c] =
                        Leave(c, HTTPException(404, <<"No Python files found in repository">>))]
                /\ UNCHANGED << args, pc >>
           ELSE IF ~Truthy(combined_content)
           THEN /\ host' = [host EXCEPT ![c] =
                        [Leave(c, HTTPException(404, <<"No valid files to analyze">>))
                            EXCEPT !.py_files = py_files, !.files_to_analyze = files_to_analyze]]
                /\ UNCHANGED << args, pc >>
           ELSE /\ host' = [host EXCEPT ![c] =
                        [@ EXCEPT !.py_files = py_files, !.files_to_analyze = files_to_analyze,
                                  !.combined_content = combined_content, !.hpc = "crew"]]
                /\ args' = [args EXCEPT ![c] = [code_file_path |-> <<"GITHUB_REPO">>,
                                                code_content |-> combined_content]]
                /\ pc' = [pc EXCEPT ![c] = "new"]
    /\ UNCHANGED << cfgFiles, outDirOk, now, files, self, loc, exc, ret, log >>

\* Lines 158-180: the constructor or run() raised, or run() returned and the
\* response is built.
HandlerCrewEnd(c) ==
    /\ host[c].hpc = "crew"
    /\ pc[c] \in {"init_failed", "run_raised", "returned"}
    /\ host' = [host EXCEPT ![c] =
          IF pc[c] = "returned"
          THEN [@ EXCEPT !.hpc = "finally", !.pending = Success]
          ELSE Leave(c, exc[c])]
    /\ UNCHANGED << args, cfgFiles, outDirOk, now, files, pc, self, loc, exc, ret, log >>

\* Mutant of AfterCleanup: a failed cleanup answers the request with 500.
AfterCleanupRaises(pending, failed) ==
    IF failed THEN [status |-> 500, detail |-> <<"cleanup failed">>] ELSE pending

\* Lines 191-194, 236-239: a failure of rmtree is logged and swallowed; what
\* left the try statement goes to the client.
AfterCleanup(pending, failed) == pending

\* Lines 188-194, 235-239: the finally clause.
HandlerFinally(c) ==
    /\ host[c].hpc = "finally"
    /\ \E failed \in BOOLEAN :
          /\ (host[c].temp_dir # "made") => ~failed
          /\ host' = [host EXCEPT ![c] =
                [@ EXCEPT !.hpc = "done",
                          !.rmtree = IF host[c].temp_dir = "made" THEN @ + 1 ELSE @,
                          !.rmFailed = failed,
                          !.temp_dir = IF host[c].temp_dir = "made" /\ ~failed
                                       THEN "removed" ELSE @,
                          !.status = AfterCleanup(host[c].pending, failed).status,
                          !.detail = AfterCleanup(host[c].pending, failed).detail]]
    /\ UNCHANGED << args, cfgFiles, outDirOk, now, files, pc, self, loc, exc, ret, log >>

\* The steps of a handler.
Handler(c) ==
    \/ HandlerStart(c)
    \/ HandlerClone(c)
    \/ HandlerScan(c)
    \/ HandlerCrewEnd(c)
    \/ HandlerFinally(c)

\* One request, whose handler builds and runs a crew.
NextHttp == Handler(1) \/ Build(1) \/ Run(1)

SpecHttp == InitHttp /\ [][NextHttp]_vars

\* -------------------------------------------------------------- claims
\* The configuration and the disk let a build go through.
EnvOk ==
    /\ outDirOk
    /\ cfgFiles.agents = [status |-> "ok", doc |-> FullAgents]
    /\ cfgFiles.tasks = [status |-> "ok", doc |-> GoodTasks]

\* The constructor of crew c has come to its end, one way or the other.
BuildEnded(c) == pc[c] \notin {"idle", "new", "makedirs", "load_agents", "load_tasks",
                               "create_agents", "create_tasks"}

\* The four task names, as the specification fixes their order.
FixedOrder == << "bug_detection_task", "security_analysis_task",
                 "performance_analysis_task", "documentation_review_task" >>

\* C1: once the task list is built, each task's context is exactly its
\* hardcoded upstream list, in order (none for bug_detection), and no context
\* holds the task itself or anything outside the four.
C1_ContextIsUpstreamList ==
    \A c \in Crews :
        /\ \A k \in 1..Len(loc[c].tasks) :
              LET t == loc[c].tasks[k]
              IN  t.context # PyNone =>
                    /\ Range(t.context) \subseteq Range(FixedOrder)
                    /\ t.id \notin Range(t.context)
        /\ "tasks" \in self[c].attrs =>
            LET ts == self[c].tasks
            IN  /\ Len(ts) = 4
                /\ \A i \in 1..4 : ts[i].id = FixedOrder[i]
                /\ ts[1].context = PyNone
                /\ ts[2].context = <<"bug_detection_task">>
                /\ ts[3].context = <<"bug_detection_task", "security_analysis_task">>
                /\ ts[4].context = <<"bug_detection_task", "security_analysis_task",
                                     "performance_analysis_task">>
                /\ \A i \in 2..4 : /\ Range(ts[i].context) \subseteq Range(FixedOrder)
                                   /\ ts[i].id \notin Range(ts[i].context)

\* C1 witness: a build has completed and stored its four tasks.
C1_Witness ==
    /\ pc[1] = "constructed"
    /\ "tasks" \in self[1].attrs
    /\ Len(self[1].tasks) = 4

\* C2: while _create_tasks runs, the tasks built so far are a prefix of the
\* fixed order, and every dependency of the task about to be built is already
\* in the name-to-object map, so that the presence guard has skipped nothing.
C2_DependenciesAlreadyBuilt ==
    \A c \in Crews :
        pc[c] = "create_tasks" =>
            LET i == loc[c].i
            IN  /\ [k \in 1..Len(loc[c].tasks) |-> loc[c].tasks[k].id]
                      = SubSeq(FixedOrder, 1, i - 1)
                /\ DOMAIN loc[c].task_objects = Range(SubSeq(FixedOrder, 1, i - 1))
                /\ i <= 4 =>
                      Range(task_dependencies[FixedOrder[i]]) \subseteq DOMAIN loc[c].task_objects
                /\ log[c].skipped = 0

\* C2 witness: documentation_review is about to be built and its three
\* upstream tasks are in the map.
C2_Witness ==
    /\ pc[1] = "create_tasks"
    /\ loc[1].i = 4
    /\ DOMAIN loc[1].task_objects = { "bug_detection_task", "security_analysis_task",
                                      "performance_analysis_task" }

\* The agent document holds a mapping that lacks exactly the agent `name`.
AgentDocLacks(name) ==
    /\ cfgFiles.agents.status = "ok"
    /\ DOMAIN cfgFiles.agents.doc = Range(agent_names) \ {name}

\* C3: with one required agent absent from the agent document, _create_agents
\* fails with the missing-key error naming that agent, no Agent has been
\* constructed and no registry is stored.
C3_NoAgentBuiltOnMissingKey ==
    \A c \in Crews : \A name \in Range(agent_names) :
        (AgentDocLacks(name) /\ pc[c] = "init_failed" /\ "tasks_config" \in self[c].attrs) =>
            /\ exc[c].kind = "KeyError"
            /\ exc[c].msg = <<"Agent '", name, "' not found in agents.yaml">>
            /\ "agents" \notin self[c].attrs
            /\ log[c].agentCalls = 0

\* The task document holds a mapping that lacks exactly the task `name`.
TaskDocLacks(name) ==
    /\ cfgFiles.tasks.status = "ok"
    /\ DOMAIN cfgFiles.tasks.doc = Range(task_names) \ {name}

\* _create_tasks of crew c was entered and the constructor has ended.
TasksAttempted(c) == BuildEnded(c) /\ "agents" \in self[c].attrs

\* No crew object exists for c, no task list is stored, the engine was not called.
NoCrewNoEngine(c) ==
    /\ pc[c] = "init_failed"
    /\ "tasks" \notin self[c].attrs
    /\ log[c].kickoffs = 0

EarlierEntriesRender(name) ==
    \A k \in 1..4 :
        (k < (CHOOSE j \in 1..4 : FixedOrder[j] = name)
         /\ FixedOrder[k] \in DOMAIN cfgFiles.tasks.doc) =>
            \A f \in 1..Len(cfgFiles.tasks.doc[FixedOrder[k]]["description"]) :
                LET item == cfgFiles.tasks.doc[FixedOrder[k]]["description"][f]
                IN  item[1] = "field" =>
                        item[2] \in { "code_file_path", "code_file_name", "code_content",
                                      "total_lines", "datetime" }

NotDotPy(p) == Len(p) = 0 \/ p[Len(p)] # ".py"

\* C5 (as stated): a path not ending in .py, given without content, fails
\* with ValueError and no agent or task is constructed.
C5_NonPyIsValueError ==
    \A c \in Crews :
        (args[c].code_content = PyNone /\ NotDotPy(args[c].code_file_path)
         /\ pc[c] # "new") =>
            /\ pc[c] = "init_failed"
            /\ exc[c].kind = "ValueError"
            /\ log[c].agentCalls = 0 /\ log[c].taskCalls = 0

\* C5 (amended): a path of an existing file not ending in .py, given without
\* content, fails with ValueError; a path not ending in .py that does not
\* exist fails with FileNotFoundError; either way nothing is constructed.
C5_ExistingNonPyIsValueError ==
    \A c \in Crews :
        (args[c].code_content = PyNone /\ NotDotPy(args[c].code_file_path)
         /\ pc[c] # "new") =>
            /\ pc[c] = "init_failed"
            /\ exc[c].kind = IF Abspath(args[c].code_file_path) \in DOMAIN DiskFiles
                             THEN "ValueError" ELSE "FileNotFoundError"
            /\ exc[c].msg[Len(exc[c].msg)] = args[c].code_file_path[Len(args[c].code_file_path)]
            /\ log[c].agentCalls = 0 /\ log[c].taskCalls = 0
            /\ self[c].attrs \cap {"agents_config", "tasks_config", "agents", "tasks"} = {}

\* C5 witness: notes.txt exists and was refused for its extension.
C5_Witness ==
    /\ args[1] = [code_file_path |-> <<"notes", ".txt">>, code_content |-> PyNone]
    /\ pc[1] = "init_failed"
    /\ exc[1].kind = "ValueError"

\* The review of crew c is of empty code: an empty .py file given by path, or
\* empty text given as direct content with a display name.
EmptyCode(c) ==
    \/ /\ args[c].code_content = PyNone
       /\ ~NotDotPy(args[c].code_file_path)
       /\ Abspath(args[c].code_file_path) \in DOMAIN DiskFiles
       /\ DiskFiles[Abspath(args[c].code_file_path)] = <<>>
    \/ args[c].code_content = <<>>

\* C6: with a sound configuration, constructing a review of empty code raises
\* nothing and yields four tasks, the line count rendered as 0.
C6_EmptyCodeBuilds ==
    \A c \in Crews :
        (EnvOk /\ EmptyCode(c) /\ BuildEnded(c)) =>
            /\ pc[c] # "init_failed"
            /\ Len(self[c].tasks) = 4
            /\ \E k \in 1..Len(self[c].tasks[1].description) :
                  /\ self[c].tasks[1].description[k] = "), lines: "
                  /\ self[c].tasks[1].description[k + 1] = "0"


\* The text a result stands for: its raw attribute when it has one,
\* otherwise its generic text conversion.
RawTextOf(r) ==
    IF r.hasRaw THEN (IF r.raw = PyNone THEN <<"None">> ELSE r.raw) ELSE r.repr

\* The header block of a report for file `name`, dated with `stamp`.
HeaderBlock(name, stamp) ==
    <<"# Code Review Report\n\n", "**File**: ">> \o name
    \o <<"\n", "**Date**: ", stamp, "\n\n", "---\n\n">>

\* C7: the markdown file a run has written holds the header block followed
\* by exactly the raw text of the result, and the raw file it has written
\* holds exactly that text.
C7_PersisterRoundTrip ==
    \A c \in Crews :
        LET w == log[c].written
            X == RawTextOf(loc[c].result)
        IN  /\ Len(w) >= 1 =>
                 \E t \in 0..MaxClock :
                    files[w[1]] = HeaderBlock(Basename(args[c].code_file_path),
                                              ToString(<<"%Y-%m-%d %H:%M:%S", t>>)) \o X
            /\ Len(w) >= 2 => files[w[2]] = X
            /\ pc[c] \in {"run_tail", "returned"} => Len(w) = 2

\* C7 witness: both files of a result whose raw attribute is a text are on
\* disk and run() has returned.
C7_Witness ==
    /\ pc[1] = "returned"
    /\ Len(log[1].written) = 2
    /\ ret[1].hasRaw /\ ret[1].raw = <<"## Findings", "\n", "none">>
    /\ files[log[1].written[2]] = <<"## Findings", "\n", "none">>

\* A text with every embedded timestamp blanked.
MaskTs(text) ==
    [k \in 1..Len(text) |-> IF text[k] \in TimestampTokens THEN "<timestamp>" ELSE text[k]]

\* C8: two builds from the same content, path and configuration yield task
\* descriptions that agree once the timestamps are blanked, and the same
\* expected outputs, agents and context lists.
C8_RenderingDeterministic ==
    ("tasks" \in self[1].attrs /\ "tasks" \in self[2].attrs) =>
        /\ Len(self[1].tasks) = Len(self[2].tasks)
        /\ \A i \in 1..Len(self[1].tasks) :
              LET a == self[1].tasks[i]
                  b == self[2].tasks[i]
              IN  /\ MaskTs(a.description) = MaskTs(b.description)
                  /\ a.expected_output = b.expected_output
                  /\ a.agent = b.agent
                  /\ a.context = b.context

\* C8 witness: both builds are complete and their first descriptions differ,
\* which can only be by the timestamp.
C8_Witness ==
    /\ pc[1] = "constructed" /\ pc[2] = "constructed"
    /\ self[1].tasks[1].description # self[2].tasks[1].description

\* C9: when the engine has raised, run() has raised that very exception, the
\* engine was invoked once, nothing was written and nothing returned, and
\* the run takes no further step.
C9_EngineErrorReraised ==
    \A c \in Crews :
        log[c].engineExc # NoExc =>
            /\ pc[c] = "run_raised"
            /\ exc[c] = log[c].engineExc
            /\ log[c].kickoffs = 1
            /\ log[c].written = <<>>
            /\ ret[c] = NoResult
            /\ ~ENABLED Run(c)

\* C9 witness: the engine raised a RuntimeError out of run().
C9_Witness ==
    /\ pc[1] = "run_raised"
    /\ log[1].engineExc = [kind |-> "RuntimeError", msg |-> <<"LLM call failed">>]

\* C10: when the engine has succeeded and writing a file has failed, run()
\* has raised the persistence exception, nothing was returned, and the run
\* takes no further step (the engine ran once, no file was written twice).
C10_SaveFailureLosesResult ==
    \A c \in Crews :
        log[c].saveExc # NoExc =>
            /\ pc[c] = "run_raised"
            /\ exc[c] = log[c].saveExc
            /\ log[c].engineExc = NoExc /\ log[c].kickoffs = 1
            /\ loc[c].result \in EngineResults
            /\ ret[c] = NoResult
            /\ Len(log[c].written) <= 1
            /\ ~ENABLED Run(c)

\* C10 witness: the markdown report was written, the raw copy failed, and
\* run() raised.
C10_Witness ==
    /\ pc[1] = "run_raised"
    /\ log[1].saveExc # NoExc
    /\ Len(log[1].written) = 1


\* C11: whenever the constructor has raised the not-found or the extension
\* error, no configuration document has been loaded and no agent or task has
\* been constructed.
C11_InputErrorsComeFirst ==
    \A c \in Crews :
        (pc[c] = "init_failed" /\ exc[c].kind \in {"FileNotFoundError", "ValueError"}) =>
            /\ self[c].attrs \cap {"agents_config", "tasks_config", "agents", "tasks"} = {}
            /\ self[c].agents_config.doc = <<>> /\ self[c].tasks_config.doc = <<>>
            /\ log[c].agentCalls = 0 /\ log[c].taskCalls = 0
            /\ loc[c].agents = <<>> /\ loc[c].tasks = <<>>

\* C11 witness: a missing file was refused although both configuration
\* files are sound.
C11_Witness ==
    /\ EnvOk
    /\ pc[1] = "init_failed"
    /\ exc[1].kind = "FileNotFoundError"
    /\ args[1].code_file_path = <<"gone", ".py">>


\* The configuration file cannot be used: it is absent, it does not parse,
\* or it parses to no mapping at all.
Unusable(file) == file.status \in {"missing", "malformed", "empty"}

\* C12: with an unusable agents.yaml or tasks.yaml, a constructor that got as
\* far as loading them has failed with the load error, and no agent or task
\* has been constructed.
C12_UnusableConfigIsLoadError ==
    \A c \in Crews :
        ((Unusable(cfgFiles.agents) \/ Unusable(cfgFiles.tasks))
         /\ "config_dir" \in self[c].attrs) =>
            /\ log[c].agentCalls = 0 /\ log[c].taskCalls = 0
            /\ BuildEnded(c) =>
                  /\ pc[c] = "init_failed"
                  /\ exc[c].kind = "RuntimeError"
                  /\ exc[c].msg[1] = "Failed to load "

\* The five names _create_tasks supplies to a description template.
SuppliedNames ==
    { "code_file_path", "code_file_name", "code_content", "total_lines", "datetime" }

\* The replacement fields of the description template of task `name` in
\* tasks.yaml.
TemplateFields(name) ==
    LET tpl == cfgFiles.tasks.doc[name]["description"]
    IN  { tpl[k][2] : k \in { j \in 1..Len(tpl) : tpl[j][1] = "field" } }

\* The code text that was submitted to crew c.
SubmittedCode(c) ==
    IF args[c].code_content # PyNone /\ args[c].code_content # <<>>
    THEN args[c].code_content
    ELSE DiskFiles[Cwd \o <<"/">> \o args[c].code_file_path]

\* Does `text` end with `tail`?
EndsWith(text, tail) ==
    /\ Len(tail) <= Len(text)
    /\ SubSeq(text, Len(text) - Len(tail) + 1, Len(text)) = tail

\* C14: every task that has been built comes from a template whose
\* placeholders are all among the five supplied names, and the description
\* of bug_detection carries the submitted code text verbatim; once
\* _create_tasks has met a template with another placeholder, the constructor
\* has failed with KeyError and stored no task list.
C14_UnknownPlaceholderFails ==
    \A c \in Crews :
        /\ \A k \in 1..Len(loc[c].tasks) :
              /\ TemplateFields(loc[c].tasks[k].id) \subseteq SuppliedNames
              /\ loc[c].tasks[k].id = "bug_detection_task" =>
                    EndsWith(loc[c].tasks[k].description, SubmittedCode(c))
        /\ \A k \in 1..Len(self[c].tasks) :
              /\ TemplateFields(self[c].tasks[k].id) \subseteq SuppliedNames
              /\ self[c].tasks[k].id = "bug_detection_task" =>
                    EndsWith(self[c].tasks[k].description, SubmittedCode(c))
        /\ (TasksAttempted(c) /\ cfgFiles.tasks.status = "ok"
            /\ \E n \in DOMAIN cfgFiles.tasks.doc : ~(TemplateFields(n) \subseteq SuppliedNames)) =>
              /\ pc[c] = "init_failed"
              /\ exc[c].kind = "KeyError"
              /\ "tasks" \notin self[c].attrs
              /\ log[c].kickoffs = 0

\* C14 witness: code holding braces was rendered into the first description
\* as it is, and the next template's unknown placeholder stopped the build.
C14_Witness ==
    /\ pc[1] = "init_failed"
    /\ exc[1] = [kind |-> "KeyError", msg |-> <<"severity">>]
    /\ log[1].taskCalls = 1
    /\ args[1].code_content = <<"a = 1", "\n", "{b}", "\n">>
    /\ EndsWith(loc[1].tasks[1].description, <<"a = 1", "\n", "{b}", "\n">>)

\* C16: the first file a run writes is the markdown report and the second
\* the raw copy, both named from the stem of the input file and one and the
\* same timestamp; run() has returned a result only after one engine
\* invocation and with both files on disk.
C16_ReturnAfterBothFiles ==
    \A c \in Crews :
        LET w == log[c].written
            prefix == <<"output", "/">> \o Stem(args[c].code_file_path)
        IN  /\ Len(w) <= 2
            /\ Len(w) >= 1 =>
                 \E ts \in TimestampTokens :
                    /\ w[1] = prefix \o <<"_review_", ts, ".md">>
                    /\ Len(w) = 2 => w[2] = prefix \o <<"_raw_", ts, ".txt">>
            /\ ret[c] # NoResult => pc[c] = "returned"
            /\ pc[c] = "returned" =>
                 /\ log[c].kickoffs = 1
                 /\ Len(w) = 2
                 /\ w[1] \in DOMAIN files /\ w[2] \in DOMAIN files
                 /\ ret[c] = loc[c].result /\ ret[c] \in EngineResults

\* C16 witness: run() has returned and the clock moved while the report was
\* being written.
C16_Witness ==
    /\ pc[1] = "returned"
    /\ Len(log[1].written) = 2
    /\ log[1].written[1][Len(log[1].written[1]) - 1] # ToString(<<"%Y%m%d_%H%M%S", now>>)
    /\ log[1].written[2][Len(log[1].written[2]) - 1] = log[1].written[1][Len(log[1].written[1]) - 1]

\* The number of lines of a text.
LineCount(text) ==
    Cardinality({ i \in 1..Len(text) : text[i] = "\n" })
    + (IF text # <<>> /\ text[Len(text)] # "\n" THEN 1 ELSE 0)

\* C17: with non-empty direct content the constructor raises neither the
\* not-found nor the extension error whatever the display name, keeps the
\* display name as the file path, and counts the lines of the content.
C17_DirectContentSkipsValidation ==
    \A c \in Crews :
        (args[c].code_content # PyNone /\ args[c].code_content # <<>>
         /\ pc[c] \notin {"idle", "new"}) =>
            /\ exc[c].kind \notin {"FileNotFoundError", "ValueError"}
            /\ self[c].code_file_path = args[c].code_file_path
            /\ self[c].code_content = args[c].code_content
            /\ Len(self[c].code_lines) = LineCount(args[c].code_content)

\* C17 witness: a crew was built for the display name GITHUB_REPO, which is
\* no file, from two lines of content.
C17_Witness ==
    /\ pc[1] = "constructed"
    /\ args[1].code_file_path = <<"GITHUB_REPO">>
    /\ self[1].code_file_path = <<"GITHUB_REPO">>
    /\ Len(self[1].code_lines) = 2


\* C13: a process started from the command line ends with status 130 after
\* a keyboard interrupt, with status 1 after a not-found error, an
\* invalid-extension error or any other exception, and with status 0 only
\* when run() returned with both files written.
C13_ExitCodes ==
    \A c \in Crews :
        host[c].hpc = "exited" =>
            /\ pc[c] \in {"init_failed", "run_raised"} =>
                  host[c].status = (IF exc[c].kind = "KeyboardInterrupt" THEN 130 ELSE 1)
            /\ host[c].status = 0 <=>
                  (pc[c] = "returned" /\ Len(log[c].written) = 2 /\ ret[c] \in EngineResults)
            /\ host[c].status \in {0, 1, 130}

\* C13 witness: the engine was interrupted and the process has ended with 130.
C13_Witness ==
    /\ host[1].hpc = "exited"
    /\ host[1].status = 130
    /\ pc[1] = "run_raised"
    /\ log[1].engineExc.kind = "KeyboardInterrupt"


\* C15: of two runs going on at the same time, each one that has returned
\* finds in the two files it wrote its own result: the report ends with the
\* text of the result it returned and the raw file is exactly that text.
C15_RunsDoNotInterfere ==
    \A c \in Crews :
        pc[c] = "returned" =>
            /\ Len(log[c].written) = 2
            /\ EndsWith(files[log[c].written[1]], RawTextOf(ret[c]))
            /\ files[log[c].written[2]] = RawTextOf(ret[c])


\* No file of the repository has a name ending in .py.
NoPython(repo) ==
    \A k \in 1..Len(repo) : repo[k].path[Len(repo[k].path)] # ".py"

\* C18: a finished request to review_github_repo was answered with 404 and
\* 'No Python files found in repository' when the clone held no Python file,
\* with 404 and 'No valid files to analyze' when none of the files to
\* analyze could be read, with 400 when the clone failed, and with 500 only
\* after some other failure.
C18_GithubStatusCodes ==
    \A c \in Crews :
        (host[c].kind = "github" /\ host[c].hpc = "done") =>
            /\ (host[c].cloned /\ NoPython(host[c].repo)) =>
                  /\ host[c].status = 404
                  /\ host[c].detail = <<"No Python files found in repository">>
            /\ (host[c].cloned /\ ~NoPython(host[c].repo) /\ pc[c] = "idle") =>
                  /\ host[c].status = 404
                  /\ host[c].detail = <<"No valid files to analyze">>
            /\ host[c].raised.kind = "GitCommandError" => host[c].status = 400
            /\ host[c].status = 500 =>
                  host[c].raised.kind \notin {"none", "HTTPException", "GitCommandError"}

\* C19: a finished request to either handler that had created its temporary
\* directory has attempted to remove it, exactly once, whichever way the try
\* statement was left; and the client got what left the try statement,
\* whether the removal worked or not.
C19_CleanupOnEveryPath ==
    \A c \in Crews :
        host[c].kind \in {"github", "list"} =>
            /\ host[c].hpc = "done" =>
                  /\ host[c].temp_dir # "none" => host[c].rmtree = 1
                  /\ host[c].temp_dir = "none" => host[c].rmtree = 0
                  /\ ~host[c].rmFailed <=> host[c].temp_dir \in {"none", "removed"}
                  /\ host[c].status = host[c].pending.status
                  /\ host[c].detail = host[c].pending.detail
                  /\ host[c].raised = NoExc => host[c].status = 200
                  /\ (host[c].raised # NoExc /\ host[c].raised.kind # "KeyboardInterrupt") =>
                        host[c].status \in {400, 404, 500}
            /\ host[c].hpc # "done" =>
                  /\ host[c].rmtree = 0
                  /\ host[c].status = 0

\* C19 witness: the review ran to its end, removing the clone failed, and the
\* client still got the successful response.
C19_Witness ==
    /\ host[1].kind = "github" /\ host[1].hpc = "done"
    /\ pc[1] = "returned"
    /\ host[1].rmtree = 1 /\ host[1].rmFailed
    /\ host[1].status = 200

====
